---- MODULE Spec2Model ----
(***************************************************************************)
(* HabitFlow: the habit, check-in, statistics, friends, profile, search   *)
(* and login request handlers, over a store of user, habit, completion    *)
(* and friendship rows.                                                    *)
(*                                                                         *)
(* Time is an integer count of ticks; a local calendar day is TicksPerDay  *)
(* ticks long and tick 0 of a day is local midnight.  Day 0 is the day of  *)
(* the Date epoch, a Thursday.  The local calendar has no clock changes.   *)
(*                                                                         *)
(* Spec      serves whole requests one at a time, from an empty store.     *)
(* SpecRace  serves two check-ins concurrently, one store call per step.   *)
(* SpecStats serves GET /api/habits over stores with long histories.       *)
(* SpecProgress does the same on the first and last day of a week.         *)
(* SpecFollow  serves follow, unfollow and the friends lists.              *)
(* SpecFeed    serves the activity feed over long histories.               *)
(* SpecSocial  serves check-ins of owners and the feed of a follower.      *)
(* SpecAccess  serves requests of owners, other users and no user.         *)
(* SpecLogin   serves logins against the stored users.                     *)
(* SpecNames   serves creations and renames of habits of several owners.   *)
(* SpecAccounts serves signups and profile updates, one at a time.         *)
(* SpecSignup  serves signups whose database calls may time out.           *)
(* SpecAuth    runs the AuthProvider of one browser, one callback a step.  *)
(* SpecStreaks serves the three streak routines over long histories.       *)
(* SpecOwnFeed serves check-ins of every member and the feed of one.       *)
(*                                                                         *)
(* The category, notes and color of a habit and the notes of a completion  *)
(* are stored and returned but never read by a handler; they are left out, *)
(* as are the bio and avatar of a user, the order of the following and     *)
(* followers lists, and the signup function and the redirects of the       *)
(* AuthProvider.                                                           *)
(***************************************************************************)
EXTENDS Integers, Sequences, FiniteSets, TLC

\* ---- bounds of the model ------------------------------------------------
TicksPerDay == 2
StartDay == 1
MaxDay == 2
NumUsers == 1
MaxHabits == 1
MaxCompletions == 2
MaxRun == 31
NumMembers == 2
MaxFeed == 51
MaxSignups == 1

\* ---- program constants --------------------------------------------------
Take == 30
DaysPerWeek == 7
EpochDow == 4
ProgressWindowDays == 30
ExpectedDaily == 30
ExpectedWeekly == 5
SearchTake == 20
MinUsername == 3
FeedTake == 50
MinPassword == 8
MinSignupUsername == 3

Users == 1..NumUsers
\* the rows of the user table
Members == 1..NumMembers
NoUser == 0
NoHabit == 0
NoValue == "undefined"
\* an absent (undefined) name in a request body
NoName == <<>>
\* habit names are sequences of characters; " " is white space
RawNames == {<<"a">>, <<" ", "a">>, <<"b">>}
Frequencies == {"daily", "weekly"}
FrequencyInputs == Frequencies \cup {"monthly"}

VARIABLES
    now,          \* the clock: the instant new Date() returns
    habits,       \* habit rows: id -> [userId, name, frequency]
    completions,  \* completion rows: set of [id, habitId, userId, completedAt]
    last,         \* the last request served and its response
    before,       \* the completion rows as they were before the last check-in that returned 201
    reqs,         \* the check-in requests in flight: slot -> position and locals
    friendships,  \* friendship rows: set of [id, followerId, followingId]
    users,        \* user rows: id -> [email, username, password]
    signups,      \* the user.create calls of signups still pending, and the emails answered 201
    auth          \* the AuthProvider of one browser: its state, timer, cookie and requests

vars == <<now, habits, completions, last, before, reqs, friendships, users, signups, auth>>

\* ---- calendar arithmetic of Date ----------------------------------------
Day(t) == t \div TicksPerDay

\* setHours(0, 0, 0, 0)
StartOfDay(t) == Day(t) * TicksPerDay

\* getDay(): 0 is Sunday
GetDay(t) == (Day(t) + EpochDow) % DaysPerWeek

\* d.setDate(d.getDate() + n): the time of day is kept
AddDays(t, n) == t + n * TicksPerDay

\* weekStart.setDate(today.getDate() - today.getDay())
BackToSunday(t) == AddDays(t, 0 - GetDay(t))

\* ---- String.prototype.trim ----------------------------------------------
RECURSIVE TrimStart(_)
TrimStart(s) ==
    IF s = <<>> THEN s
    ELSE IF Head(s) = " " THEN TrimStart(Tail(s)) ELSE s

RECURSIVE TrimEnd(_)
TrimEnd(s) ==
    IF s = <<>> THEN s
    ELSE IF s[Len(s)] = " " THEN TrimEnd(SubSeq(s, 1, Len(s) - 1)) ELSE s

Trim(s) == TrimEnd(TrimStart(s))

\* ---- String.prototype.toLowerCase ---------------------------------------
Alphabet == <<"a", "b", "c", "d", "e", "f">>

UpperCase == <<"A", "B", "C", "D", "E", "F">>

ToLowerChar(c) ==
    IF \E i \in 1..Len(UpperCase) : UpperCase[i] = c
    THEN Alphabet[CHOOSE i \in 1..Len(UpperCase) : UpperCase[i] = c]
    ELSE c

ToLowerCase(s) == [i \in 1..Len(s) |-> ToLowerChar(s[i])]

\* ---- the user table ----------------------------------------------------
\* hashPassword and verifyPassword of lib/auth: a password verifies against
\* its own hash and no other
HashPassword(password) == <<"#">> \o password

VerifyPassword(password, hash) == HashPassword(password) = hash

\* the row signup stored for member m: the email in lower case
PasswordOf(m) == <<"P", Alphabet[m], "1">>

InitialUsers ==
    [m \in Members |->
        [email |-> <<Alphabet[m], "@", "x">>,
         username |-> <<Alphabet[m], Alphabet[m], Alphabet[m]>>,
         password |-> HashPassword(PasswordOf(m))]]

\* ---- the signups and the browser ---------------------------------------
\* no user.create is pending and no signup has been answered 201
NoSignups == [pending |-> {}, registered |-> {}]

\* the AuthProvider once its mount effect has run: user null, loading true,
\* initialized false, the 10-second timer armed and GET /api/auth/me sent with
\* the cookie the browser holds; session records that login() has resolved
\* and neither logout() nor another login() was called since
Mounted(cookie) ==
    [user |-> NoUser, loading |-> TRUE, initialized |-> FALSE,
     timer |-> "armed", check |-> "pending", checkCookie |-> cookie,
     cookie |-> cookie, login |-> "idle", verifyCookie |-> NoUser,
     session |-> FALSE]

\* ---- the store ----------------------------------------------------------
HabitIds == 1..MaxHabits

\* the lookup by id alone
OwnedHabitOfAnyone(u, h) == h \in DOMAIN habits

\* prisma.habit.findFirst({ where: { id, userId } })
OwnedHabit(u, h) == h \in DOMAIN habits /\ habits[h].userId = u

HabitsOf(u) == {h \in DOMAIN habits : habits[h].userId = u}

\* orderBy: { completedAt: "desc" }
RECURSIVE SortDesc(_)
SortDesc(S) ==
    IF S = {} THEN <<>>
    ELSE LET c == CHOOSE x \in S : \A y \in S : y.completedAt <= x.completedAt
         IN  <<c>> \o SortDesc(S \ {c})

\* take: n
TakeRows(s, n) == SubSeq(s, 1, IF Len(s) < n THEN Len(s) ELSE n)

\* the rows of a habit without take
HabitRowsAll(h) == SortDesc({c \in completions : c.habitId = h})

\* include: { completions: { orderBy: { completedAt: "desc" }, take: 30 } }
HabitRows(h) == TakeRows(SortDesc({c \in completions : c.habitId = h}), Take)

\* ---- the period window of check-in and undo -----------------------------
\* the weekly window start taken whatever the frequency
WindowStartOfWeek(frequency, today) == BackToSunday(today)

WindowStart(frequency, today) ==
    IF frequency = "daily" THEN today ELSE BackToSunday(today)

WindowEnd(frequency, today) ==
    IF frequency = "daily" THEN AddDays(today, 1)
    ELSE AddDays(BackToSunday(today), DaysPerWeek)

\* the range filter with gt in place of gte
InWindowAfterStart(c, u, h, frequency, today) ==
    /\ c.habitId = h
    /\ c.userId = u
    /\ c.completedAt > (IF frequency = "daily" THEN today ELSE BackToSunday(today))
    /\ c.completedAt < (IF frequency = "daily" THEN AddDays(today, 1)
                        ELSE AddDays(BackToSunday(today), DaysPerWeek))

\* where: { habitId, userId, completedAt: { gte, lt } }
InWindow(c, u, h, frequency, today) ==
    /\ c.habitId = h
    /\ c.userId = u
    /\ c.completedAt >= WindowStart(frequency, today)
    /\ c.completedAt < WindowEnd(frequency, today)

ExistingCompletions(u, h, frequency, today) ==
    {c \in completions : InWindow(c, u, h, frequency, today)}

\* ---- streak, completedToday and progress of GET /api/habits -------------
RECURSIVE DailyWalk(_, _, _, _)
DailyWalk(rows, i, checkDate, streak) ==
    IF i > Len(rows) THEN streak
    ELSE LET completionDate == StartOfDay(rows[i].completedAt)
         IN  IF completionDate = checkDate
             THEN DailyWalk(rows, i + 1, AddDays(checkDate, -1), streak + 1)
             ELSE IF completionDate < checkDate
                  THEN streak
                  ELSE DailyWalk(rows, i + 1, checkDate, streak)

RECURSIVE WeeklyWalk(_, _, _, _)
WeeklyWalk(rows, i, checkWeek, streak) ==
    IF i > Len(rows) THEN streak
    ELSE LET completionWeekStart == StartOfDay(BackToSunday(rows[i].completedAt))
         IN  IF completionWeekStart = checkWeek
             THEN WeeklyWalk(rows, i + 1, AddDays(checkWeek, 0 - DaysPerWeek), streak + 1)
             ELSE IF completionWeekStart < checkWeek
                  THEN streak
                  ELSE WeeklyWalk(rows, i + 1, checkWeek, streak)

Streak(frequency, rows, today) ==
    IF frequency = "daily"
    THEN DailyWalk(rows, 1, today, 0)
    ELSE WeeklyWalk(rows, 1, BackToSunday(today), 0)

\* completions.some(...): in the weekly branch completionWeekStart keeps its
\* time of day (no setHours)
CompletedToday(frequency, rows, today) ==
    \E i \in 1..Len(rows) :
        IF frequency = "daily"
        THEN StartOfDay(rows[i].completedAt) = today
        ELSE BackToSunday(rows[i].completedAt) = BackToSunday(today)

\* Math.round of a non-negative quotient n / d
RoundDiv(n, d) == (2 * n + d) \div (2 * d)

Min(a, b) == IF a < b THEN a ELSE b

\* the percentage with Math.floor in place of Math.round
ProgressFloor(frequency, rows, at) ==
    LET thirtyDaysAgo == AddDays(at, 0 - ProgressWindowDays)
        recentCompletions == {i \in 1..Len(rows) : rows[i].completedAt >= thirtyDaysAgo}
        expectedCompletions == IF frequency = "daily" THEN ExpectedDaily ELSE ExpectedWeekly
    IN  Min(100, (100 * Cardinality(recentCompletions)) \div expectedCompletions)

Progress(frequency, rows, at) ==
    LET thirtyDaysAgo == AddDays(at, 0 - ProgressWindowDays)
        recentCompletions == {i \in 1..Len(rows) : rows[i].completedAt >= thirtyDaysAgo}
        expectedCompletions == IF frequency = "daily" THEN ExpectedDaily ELSE ExpectedWeekly
    IN  Min(100, RoundDiv(100 * Cardinality(recentCompletions), expectedCompletions))

HabitStats(h, at) ==
    LET rows == HabitRows(h)
        today == StartOfDay(at)
    IN  [streak |-> Streak(habits[h].frequency, rows, today),
         progress |-> Progress(habits[h].frequency, rows, at),
         completedToday |-> CompletedToday(habits[h].frequency, rows, today)]

\* ---- the initial store --------------------------------------------------
NoStats == [h \in {} |-> 0]

NoRequest == [op |-> "none", user |-> NoUser, habit |-> NoHabit,
              status |-> 0, error |-> "", stats |-> NoStats, afterCheckIn |-> FALSE,
              target |-> NoUser, users |-> {}, activity |-> <<>>,
              email |-> <<>>, password |-> <<>>, cookie |-> NoUser,
              profile |-> NoStats, name |-> NoName, username |-> NoName]

\* two check-in requests served concurrently
Slots == {"r1", "r2"}

Idle == [pc |-> "idle", user |-> NoUser, habit |-> NoHabit, frequency |-> NoValue,
         today |-> 0, status |-> 0, completedAt |-> 0, raced |-> FALSE]

Init ==
    /\ now \in (StartDay * TicksPerDay)..(StartDay * TicksPerDay + TicksPerDay - 1)
    /\ habits = [h \in {} |-> 0]
    /\ completions = {}
    /\ last = NoRequest
    /\ before = {}
    /\ reqs = [p \in Slots |-> Idle]
    /\ friendships = {}
    /\ users = InitialUsers
    /\ signups = NoSignups
    /\ auth = Mounted(NoUser)

\* the period of an instant: the start of its calendar day, or of its calendar
\* week (the Sunday at or before the day)
PeriodStart(frequency, t) ==
    IF frequency = "daily" THEN Day(t) * TicksPerDay
    ELSE (Day(t) - GetDay(t)) * TicksPerDay

InPeriod(c, h, frequency, t) ==
    c.habitId = h /\ PeriodStart(frequency, c.completedAt) = PeriodStart(frequency, t)

\* the row that the last request created, when it was a check-in answered 201
Created == CHOOSE c \in completions \ before : TRUE

\* the last request was a check-in of habit h by user u that returned 201, and
\* instant t lies in the period of that check-in
CheckedInBefore(u, h, t) ==
    /\ last.op = "checkin"
    /\ last.status = 201
    /\ last.user = u
    /\ last.habit = h
    /\ h \in DOMAIN habits
    /\ InPeriod(Created, h, habits[h].frequency, t)

\* the response of a request; afterCheckIn records that the request came
\* directly after a successful check-in of the same habit by the same user in
\* the same period
Respond(op, u, h, status, error, stats) ==
    last' = [NoRequest EXCEPT
               !.op = op, !.user = u, !.habit = h,
               !.status = status, !.error = error, !.stats = stats,
               !.afterCheckIn = CheckedInBefore(u, h, now)]

\* the response of a request that carries a habit name
RespondNamed(op, u, h, status, error, name) ==
    last' = [NoRequest EXCEPT
               !.op = op, !.user = u, !.habit = h,
               !.status = status, !.error = error, !.name = name,
               !.afterCheckIn = CheckedInBefore(u, h, now)]

\* the id of a new completion row, unique among the stored rows: the habit,
\* the instant and a serial number among the rows of that habit and instant
NewId(h, at) ==
    LET used == {c.id[3] : c \in {r \in completions : r.habitId = h /\ r.completedAt = at}}
    IN  <<h, at, CHOOSE k \in 1..(Cardinality(used) + 1) :
                     k \notin used /\ \A j \in 1..(k - 1) : j \in used>>

\* ---- the clock ----------------------------------------------------------
Tick ==
    /\ now < MaxDay * TicksPerDay + TicksPerDay - 1
    /\ now' = now + 1
    /\ UNCHANGED <<habits, completions, last, before, reqs, friendships, users, signups, auth>>

\* ---- GET /api/habits ----------------------------------------------------
GetHabits(u) ==
    /\ IF u = NoUser
       THEN Respond("get", u, NoHabit, 401, "Not authenticated", NoStats)
       ELSE Respond("get", u, NoHabit, 200, "", [h \in HabitsOf(u) |-> HabitStats(h, now)])
    /\ before' = {}
    /\ UNCHANGED <<now, habits, completions, reqs, friendships, users, signups, auth>>

\* ---- POST /api/habits ---------------------------------------------------
\* the create whose duplicate lookup takes the name as it was sent
CreateHabitUntrimmed(u, name, frequency) ==
    /\ before' = {}
    /\ UNCHANGED <<now, completions, reqs, friendships, users, signups, auth>>
    /\ IF u = NoUser
       THEN /\ RespondNamed("create", u, NoHabit, 401, "Not authenticated", name)
            /\ UNCHANGED habits
       ELSE IF \E e \in DOMAIN habits : habits[e].userId = u /\ habits[e].name = name
       THEN /\ RespondNamed("create", u, NoHabit, 400,
                            "You already have a habit with this name", name)
            /\ UNCHANGED habits
       ELSE LET id == Cardinality(DOMAIN habits) + 1
            IN  /\ habits' = [h \in DOMAIN habits \cup {id} |->
                                IF h = id
                                THEN [userId |-> u, name |-> Trim(name), frequency |-> frequency]
                                ELSE habits[h]]
                /\ RespondNamed("create", u, id, 201, "", name)

CreateHabit(u, name, frequency) ==
    /\ before' = {}
    /\ UNCHANGED <<now, completions, reqs, friendships, users, signups, auth>>
    /\ IF u = NoUser
       THEN /\ RespondNamed("create", u, NoHabit, 401, "Not authenticated", name)
            /\ UNCHANGED habits
       ELSE IF Len(name) < 1
       THEN /\ RespondNamed("create", u, NoHabit, 400, "Habit name is required", name)
            /\ UNCHANGED habits
       ELSE IF frequency \notin Frequencies
       THEN /\ RespondNamed("create", u, NoHabit, 400, "Frequency must be daily or weekly", name)
            /\ UNCHANGED habits
       ELSE IF \E e \in DOMAIN habits : habits[e].userId = u /\ habits[e].name = Trim(name)
       THEN /\ RespondNamed("create", u, NoHabit, 400,
                            "You already have a habit with this name", name)
            /\ UNCHANGED habits
       ELSE LET id == Cardinality(DOMAIN habits) + 1
            IN  /\ habits' = [h \in DOMAIN habits \cup {id} |->
                                IF h = id
                                THEN [userId |-> u, name |-> Trim(name), frequency |-> frequency]
                                ELSE habits[h]]
                /\ RespondNamed("create", u, id, 201, "", name)

\* ---- PUT /api/habits/[id] -----------------------------------------------
UpdateHabit(u, h, name, frequency) ==
    /\ before' = {}
    /\ UNCHANGED <<now, completions, reqs, friendships, users, signups, auth>>
    /\ IF u = NoUser
       THEN /\ RespondNamed("update", u, NoHabit, 401, "Not authenticated", name)
            /\ UNCHANGED habits
       ELSE IF frequency \notin Frequencies \cup {NoValue}
       THEN /\ RespondNamed("update", u, h, 400, "Invalid enum value", name)
            /\ UNCHANGED habits
       ELSE IF ~OwnedHabit(u, h)
       THEN /\ RespondNamed("update", u, h, 404, "Habit not found", name)
            /\ UNCHANGED habits
       ELSE IF /\ name # NoName
               /\ name # habits[h].name
               /\ \E e \in DOMAIN habits :
                      habits[e].userId = u /\ habits[e].name = Trim(name) /\ e # h
       THEN /\ RespondNamed("update", u, h, 400,
                            "You already have a habit with this name", name)
            /\ UNCHANGED habits
       ELSE /\ habits' = [habits EXCEPT
                            ![h].name = IF name = NoName THEN @ ELSE Trim(name),
                            ![h].frequency = IF frequency = NoValue THEN @ ELSE frequency]
            /\ RespondNamed("update", u, h, 200, "", name)

\* ---- POST /api/habits/[id]/checkin --------------------------------------
\* the check-in that looks the habit up by its id alone
CheckInOfAnyHabit(u, h, bodyValid) ==
    /\ UNCHANGED <<now, habits, reqs, friendships, users, signups, auth>>
    /\ IF u = NoUser
       THEN /\ Respond("checkin", u, NoHabit, 401, "Not authenticated", NoStats)
            /\ UNCHANGED completions
            /\ before' = {}
       ELSE IF ~bodyValid
       THEN /\ Respond("checkin", u, h, 400, "Expected string", NoStats)
            /\ UNCHANGED completions
            /\ before' = {}
       ELSE IF h \notin DOMAIN habits
       THEN /\ Respond("checkin", u, h, 404, "Habit not found", NoStats)
            /\ UNCHANGED completions
            /\ before' = {}
       ELSE IF ExistingCompletions(u, h, habits[h].frequency, StartOfDay(now)) # {}
       THEN /\ Respond("checkin", u, h, 400, "Already completed for this period", NoStats)
            /\ UNCHANGED completions
            /\ before' = {}
       ELSE /\ Cardinality(completions) < MaxCompletions
            /\ completions' = completions \cup
                   {[id |-> NewId(h, now), habitId |-> h, userId |-> u, completedAt |-> now]}
            /\ before' = completions
            /\ Respond("checkin", u, h, 201, "", NoStats)

CheckIn(u, h, bodyValid) ==
    /\ UNCHANGED <<now, habits, reqs, friendships, users, signups, auth>>
    /\ IF u = NoUser
       THEN /\ Respond("checkin", u, NoHabit, 401, "Not authenticated", NoStats)
            /\ UNCHANGED completions
            /\ before' = {}
       ELSE IF ~bodyValid
       THEN /\ Respond("checkin", u, h, 400, "Expected string", NoStats)
            /\ UNCHANGED completions
            /\ before' = {}
       ELSE IF ~OwnedHabit(u, h)
       THEN /\ Respond("checkin", u, h, 404, "Habit not found", NoStats)
            /\ UNCHANGED completions
            /\ before' = {}
       ELSE IF ExistingCompletions(u, h, habits[h].frequency, StartOfDay(now)) # {}
       THEN /\ Respond("checkin", u, h, 400, "Already completed for this period", NoStats)
            /\ UNCHANGED completions
            /\ before' = {}
       ELSE /\ Cardinality(completions) < MaxCompletions
            /\ completions' = completions \cup
                   {[id |-> NewId(h, now), habitId |-> h, userId |-> u, completedAt |-> now]}
            /\ before' = completions
            /\ Respond("checkin", u, h, 201, "", NoStats)

\* ---- DELETE /api/habits/[id]/checkin ------------------------------------
\* the undo with the completedAt filter left out of findFirst
UndoCheckInAnyRow(u, h) ==
    /\ before' = {}
    /\ UNCHANGED <<now, habits, reqs, friendships, users, signups, auth>>
    /\ IF u = NoUser
       THEN /\ Respond("undo", u, NoHabit, 401, "Not authenticated", NoStats)
            /\ UNCHANGED completions
       ELSE IF ~OwnedHabit(u, h)
       THEN /\ Respond("undo", u, h, 404, "Habit not found", NoStats)
            /\ UNCHANGED completions
       ELSE IF {c \in completions : c.habitId = h /\ c.userId = u} = {}
       THEN /\ Respond("undo", u, h, 404, "No completion found for this period", NoStats)
            /\ UNCHANGED completions
       ELSE \E completion \in {c \in completions : c.habitId = h /\ c.userId = u} :
                /\ completions' = completions \ {completion}
                /\ Respond("undo", u, h, 200, "", NoStats)

UndoCheckIn(u, h) ==
    /\ before' = {}
    /\ UNCHANGED <<now, habits, reqs, friendships, users, signups, auth>>
    /\ IF u = NoUser
       THEN /\ Respond("undo", u, NoHabit, 401, "Not authenticated", NoStats)
            /\ UNCHANGED completions
       ELSE IF ~OwnedHabit(u, h)
       THEN /\ Respond("undo", u, h, 404, "Habit not found", NoStats)
            /\ UNCHANGED completions
       ELSE IF ExistingCompletions(u, h, habits[h].frequency, StartOfDay(now)) = {}
       THEN /\ Respond("undo", u, h, 404, "No completion found for this period", NoStats)
            /\ UNCHANGED completions
       ELSE \E completion \in ExistingCompletions(u, h, habits[h].frequency, StartOfDay(now)) :
                /\ completions' = completions \ {completion}
                /\ Respond("undo", u, h, 200, "", NoStats)

\* ---- DELETE /api/habits/[id] --------------------------------------------
\* the delete without the check of the current user
DeleteHabitOfAnyone(u, h) ==
    /\ before' = {}
    /\ UNCHANGED <<now, reqs, friendships, users, signups, auth>>
    /\ IF h \notin DOMAIN habits
       THEN /\ Respond("delete", u, h, 404, "Habit not found", NoStats)
            /\ UNCHANGED <<habits, completions>>
       ELSE /\ habits' = [e \in DOMAIN habits \ {h} |-> habits[e]]
            /\ completions' = {c \in completions : c.habitId # h}
            /\ Respond("delete", u, h, 200, "", NoStats)

\* habit.delete: the completions of the habit go with it (onDelete: Cascade)
\* or, when the schema restricts the delete, their presence makes it throw
DeleteHabit(u, h) ==
    /\ before' = {}
    /\ UNCHANGED <<now, reqs, friendships, users, signups, auth>>
    /\ IF u = NoUser
       THEN /\ Respond("delete", u, NoHabit, 401, "Not authenticated", NoStats)
            /\ UNCHANGED <<habits, completions>>
       ELSE IF ~OwnedHabit(u, h)
       THEN /\ Respond("delete", u, h, 404, "Habit not found", NoStats)
            /\ UNCHANGED <<habits, completions>>
       ELSE \/ /\ habits' = [e \in DOMAIN habits \ {h} |-> habits[e]]
               /\ completions' = {c \in completions : c.habitId # h}
               /\ Respond("delete", u, h, 200, "", NoStats)
            \/ /\ \E c \in completions : c.habitId = h
               /\ Respond("delete", u, h, 500, "Internal server error", NoStats)
               /\ UNCHANGED <<habits, completions>>

\* ---- requests run to completion, one at a time --------------------------
\* authenticated, well-formed requests; every new habit gets a name of its
\* own, for as long as the store holds fewer than MaxHabits habits, and an
\* update changes the frequency
NthName(n) == [i \in 1..n |-> "a"]

Next ==
    \/ Tick
    \/ \E u \in Users : GetHabits(u)
    \/ \E u \in Users, frequency \in Frequencies :
           /\ Cardinality(DOMAIN habits) < MaxHabits
           /\ CreateHabit(u, NthName(Cardinality(DOMAIN habits) + 1), frequency)
    \/ \E u \in Users, h \in HabitIds, frequency \in Frequencies :
           UpdateHabit(u, h, NoName, frequency)
    \/ \E u \in Users, h \in HabitIds : CheckIn(u, h, TRUE)
    \/ \E u \in Users, h \in HabitIds : UndoCheckIn(u, h)

Spec == Init /\ [][Next]_vars

\* ---- POST /api/habits/[id]/checkin, one awaited store call per step -----
\* getCurrentUser, request.json and habit.findFirst
CheckInLookup(p, u, h) ==
    /\ reqs[p].pc = "idle"
    /\ reqs' = [reqs EXCEPT ![p] =
                  IF u = NoUser
                  THEN [Idle EXCEPT !.pc = "done", !.status = 401]
                  ELSE IF ~OwnedHabit(u, h)
                  THEN [Idle EXCEPT !.pc = "done", !.user = u, !.habit = h, !.status = 404]
                  ELSE [Idle EXCEPT !.pc = "found", !.user = u, !.habit = h,
                                    !.frequency = habits[h].frequency]]
    /\ UNCHANGED <<now, habits, completions, last, before, friendships, users, signups, auth>>

\* today = new Date(); completion.findFirst over the period window
CheckInQuery(p) ==
    /\ reqs[p].pc = "found"
    /\ reqs' = [reqs EXCEPT ![p] =
                  IF ExistingCompletions(reqs[p].user, reqs[p].habit,
                                         reqs[p].frequency, StartOfDay(now)) # {}
                  THEN [@ EXCEPT !.pc = "done", !.today = StartOfDay(now), !.status = 400]
                  ELSE [@ EXCEPT !.pc = "checked", !.today = StartOfDay(now)]]
    /\ UNCHANGED <<now, habits, completions, last, before, friendships, users, signups, auth>>

\* the create guarded by a uniqueness constraint on (habit, period)
CheckInCreateUnique(p) ==
    LET raced == \E q \in Slots \ {p} :
                     reqs[q].pc = "checked" /\ reqs[q].habit = reqs[p].habit
    IN  /\ reqs[p].pc = "checked"
        /\ Cardinality(completions) < MaxCompletions
        /\ IF ExistingCompletions(reqs[p].user, reqs[p].habit,
                                  reqs[p].frequency, StartOfDay(now)) # {}
           THEN /\ reqs' = [reqs EXCEPT ![p].pc = "done", ![p].status = 500,
                                        ![p].completedAt = now, ![p].raced = raced]
                /\ UNCHANGED completions
           ELSE /\ completions' = completions \cup
                       {[id |-> NewId(reqs[p].habit, now), habitId |-> reqs[p].habit,
                         userId |-> reqs[p].user, completedAt |-> now]}
                /\ reqs' = [reqs EXCEPT ![p].pc = "done", ![p].status = 201,
                                        ![p].completedAt = now, ![p].raced = raced]
        /\ UNCHANGED <<now, habits, last, before, friendships, users, signups, auth>>

\* completion.create stamped new Date(); raced records that another request
\* for the same habit had passed its existence check and not yet inserted
CheckInCreate(p) ==
    /\ reqs[p].pc = "checked"
    /\ Cardinality(completions) < MaxCompletions
    /\ completions' = completions \cup
           {[id |-> NewId(reqs[p].habit, now), habitId |-> reqs[p].habit,
             userId |-> reqs[p].user, completedAt |-> now]}
    /\ reqs' = [reqs EXCEPT
                  ![p].pc = "done", ![p].status = 201, ![p].completedAt = now,
                  ![p].raced = \E q \in Slots \ {p} :
                                  reqs[q].pc = "checked" /\ reqs[q].habit = reqs[p].habit]
    /\ UNCHANGED <<now, habits, last, before, friendships, users, signups, auth>>

\* every habit exists and belongs to user 1
InitRace ==
    /\ now \in (StartDay * TicksPerDay)..(StartDay * TicksPerDay + TicksPerDay - 1)
    /\ habits \in [HabitIds -> {[userId |-> 1, name |-> NthName(1), frequency |-> f] :
                                  f \in Frequencies}]
    /\ completions = {}
    /\ last = NoRequest
    /\ before = {}
    /\ reqs = [p \in Slots |-> Idle]
    /\ friendships = {}
    /\ users = InitialUsers
    /\ signups = NoSignups
    /\ auth = Mounted(NoUser)

NextRace ==
    \/ Tick
    \/ \E p \in Slots, u \in Users, h \in HabitIds : CheckInLookup(p, u, h)
    \/ \E p \in Slots : CheckInQuery(p)
    \/ \E p \in Slots : CheckInCreate(p)

SpecRace == InitRace /\ [][NextRace]_vars

\* ---- the statistics of long histories -----------------------------------
\* A store holding one habit of user 1 whose owner checked in once in each of
\* `run` consecutive periods, the newest of them `skip` periods before the
\* period of the clock, and in `old` periods beyond a gap of one period.
HistoryDay == DaysPerWeek * (MaxRun + 4)

PeriodDays(frequency) == IF frequency = "daily" THEN 1 ELSE DaysPerWeek

\* the instant of the check-in made i periods before the period of instant at
HistoryInstant(frequency, at, i, shift) ==
    LET tod  == IF i = 0 THEN Min(shift % TicksPerDay, at % TicksPerDay)
                ELSE (i + shift) % TicksPerDay
        wday == IF frequency = "daily" THEN 0
                ELSE IF i = 0 THEN Min((3 * shift) % DaysPerWeek, GetDay(at))
                ELSE (3 * i + shift) % DaysPerWeek
        first == IF frequency = "daily" THEN StartOfDay(at) ELSE BackToSunday(StartOfDay(at))
    IN  AddDays(first, wday - i * PeriodDays(frequency)) + tod

History(frequency, at, run, skip, old, shift) ==
    LET periods == (skip..(skip + run - 1)) \cup ((skip + run + 1)..(skip + run + old))
    IN  {[id |-> <<1, HistoryInstant(frequency, at, i, shift), 1>>,
          habitId |-> 1, userId |-> 1,
          completedAt |-> HistoryInstant(frequency, at, i, shift)] : i \in periods}

InitStats ==
    \E frequency \in Frequencies, d \in 0..(DaysPerWeek - 1), tod \in 0..(TicksPerDay - 1),
       run \in 0..MaxRun, skip \in 0..1, old \in 0..1, shift \in 0..(TicksPerDay - 1) :
        /\ now = (HistoryDay + d) * TicksPerDay + tod
        /\ habits = [h \in {1} |-> [userId |-> 1, name |-> NthName(1), frequency |-> frequency]]
        /\ completions = History(frequency, now, run, skip, old, shift)
        /\ last = NoRequest
        /\ before = {}
        /\ reqs = [p \in Slots |-> Idle]
    /\ friendships = {}
    /\ users = InitialUsers
    /\ signups = NoSignups
    /\ auth = Mounted(NoUser)

NextStats == \E u \in Users : GetHabits(u)

SpecStats == InitStats /\ [][NextStats]_vars

\* the same histories read on the first and the last day of a week, by the
\* owner of the habit
InitProgress ==
    \E frequency \in Frequencies, d \in {0, DaysPerWeek - 1}, tod \in 0..(TicksPerDay - 1),
       run \in 0..MaxRun, skip \in 0..1, old \in 0..1, shift \in 0..(TicksPerDay - 1) :
        /\ now = (HistoryDay + d) * TicksPerDay + tod
        /\ habits = [h \in {1} |-> [userId |-> 1, name |-> NthName(1), frequency |-> frequency]]
        /\ completions = History(frequency, now, run, skip, old, shift)
        /\ last = NoRequest
        /\ before = {}
        /\ reqs = [p \in Slots |-> Idle]
    /\ friendships = {}
    /\ users = InitialUsers
    /\ signups = NoSignups
    /\ auth = Mounted(NoUser)

NextProgress == \E u \in {habits[h].userId : h \in DOMAIN habits} : GetHabits(u)

SpecProgress == InitProgress /\ [][NextProgress]_vars

\* ---- /api/friends -------------------------------------------------------
\* a user id that belongs to no row of the user table
NoSuchUser == NumMembers + 1

UserIds == Members \cup {NoSuchUser}

RespondFriends(op, u, target, status, error, list, activity) ==
    last' = [NoRequest EXCEPT
               !.op = op, !.user = u, !.status = status, !.error = error,
               !.target = target, !.users = list, !.activity = activity]

\* the lookup with the two halves of the compound key exchanged
FriendshipOfFollowing(follower, following) ==
    {f \in friendships : f.followerId = following /\ f.followingId = follower}

\* friendship.findUnique({ where: { followerId_followingId } })
FriendshipOf(follower, following) ==
    {f \in friendships : f.followerId = follower /\ f.followingId = following}

\* the id of a new friendship row, unique among the stored rows
NewFriendshipId(follower, following) ==
    LET used == {f.id[3] : f \in FriendshipOf(follower, following)}
    IN  <<follower, following, CHOOSE k \in 1..(Cardinality(used) + 1) :
                                   k \notin used /\ \A j \in 1..(k - 1) : j \in used>>

\* the query by followingId in place of followerId
FollowedUserIdsOfFollowers(u) ==
    {f.followerId : f \in {g \in friendships : g.followingId = u}}

\* friendship.findMany({ where: { followerId } }) mapped to followingId
FollowedUserIds(u) == {f.followingId : f \in {g \in friendships : g.followerId = u}}

\* friendship.findMany({ where: { followingId } }) mapped to the follower
FollowerIds(u) == {f.followerId : f \in {g \in friendships : g.followingId = u}}

\* the streak loops of the activity feed
FeedRows(h, u) ==
    TakeRows(SortDesc({c \in completions : c.habitId = h /\ c.userId = u}), Take)

RECURSIVE FeedDailyWalk(_, _, _, _)
FeedDailyWalk(rows, i, checkDate, streak) ==
    IF i > Len(rows) THEN streak
    ELSE LET completionDate == StartOfDay(rows[i].completedAt)
         IN  IF completionDate = checkDate
             THEN FeedDailyWalk(rows, i + 1, AddDays(checkDate, -1), streak + 1)
             ELSE IF completionDate < checkDate
                  THEN streak
                  ELSE FeedDailyWalk(rows, i + 1, checkDate, streak)

RECURSIVE FeedWeeklyWalk(_, _, _, _)
FeedWeeklyWalk(rows, i, checkWeek, streak) ==
    IF i > Len(rows) THEN streak
    ELSE LET completionWeekStart == StartOfDay(BackToSunday(rows[i].completedAt))
         IN  IF completionWeekStart = checkWeek
             THEN FeedWeeklyWalk(rows, i + 1, AddDays(checkWeek, 0 - DaysPerWeek), streak + 1)
             ELSE IF completionWeekStart < checkWeek
                  THEN streak
                  ELSE FeedWeeklyWalk(rows, i + 1, checkWeek, streak)

\* habit.findUnique with the acting user's rows; 0 when the habit is gone
FeedStreak(h, u, today) ==
    IF h \notin DOMAIN habits THEN 0
    ELSE IF habits[h].frequency = "daily"
         THEN FeedDailyWalk(FeedRows(h, u), 1, today, 0)
         ELSE FeedWeeklyWalk(FeedRows(h, u), 1, BackToSunday(today), 0)

\* the query without the userId filter
RecentActivityOfAll(u) == TakeRows(SortDesc(completions), FeedTake)

\* completion.findMany({ where: { userId: { in } }, orderBy desc, take: 50 })
RecentActivity(u) ==
    TakeRows(SortDesc({c \in completions : c.userId \in FollowedUserIds(u)}), FeedTake)

\* every activity with the streak as of the day of the activity itself
ActivityWithStreaksAtEntry(u, at) ==
    LET recentActivity == RecentActivity(u)
    IN  [i \in 1..Len(recentActivity) |->
            [id |-> recentActivity[i].id,
             habitId |-> recentActivity[i].habitId,
             userId |-> recentActivity[i].userId,
             completedAt |-> recentActivity[i].completedAt,
             streak |-> FeedStreak(recentActivity[i].habitId, recentActivity[i].userId,
                                   StartOfDay(recentActivity[i].completedAt))]]

\* every activity with the streak of its habit and acting user at instant at;
\* the streak is worked out once for each (habit, acting user) of the feed
ActivityWithStreaks(u, at) ==
    LET recentActivity == RecentActivity(u)
        streaks == {<<k, FeedStreak(k[1], k[2], StartOfDay(at))>> :
                      k \in {<<recentActivity[i].habitId, recentActivity[i].userId>> :
                                i \in 1..Len(recentActivity)}}
        streakOf(activity) ==
            (CHOOSE p \in streaks : p[1] = <<activity.habitId, activity.userId>>)[2]
    IN  [i \in 1..Len(recentActivity) |->
            [id |-> recentActivity[i].id,
             habitId |-> recentActivity[i].habitId,
             userId |-> recentActivity[i].userId,
             completedAt |-> recentActivity[i].completedAt,
             streak |-> streakOf(recentActivity[i])]]

FriendsTypes == {"following", "followers", "activity"}

\* GET /api/friends?type=
GetFriends(u, type) ==
    /\ IF u = NoUser
       THEN RespondFriends("friends", u, NoUser, 401, "Not authenticated", {}, <<>>)
       ELSE IF type = "following"
       THEN RespondFriends("following", u, NoUser, 200, "", FollowedUserIds(u), <<>>)
       ELSE IF type = "followers"
       THEN RespondFriends("followers", u, NoUser, 200, "", FollowerIds(u), <<>>)
       ELSE RespondFriends("activity", u, NoUser, 200, "", {}, ActivityWithStreaks(u, now))
    /\ before' = {}
    /\ UNCHANGED <<now, habits, completions, reqs, friendships, users, signups, auth>>

\* the follow without the comparison of userId and user.id
FollowAnyone(u, userId, bodyValid) ==
    /\ before' = {}
    /\ UNCHANGED <<now, habits, completions, reqs, users, signups, auth>>
    /\ IF u = NoUser
       THEN /\ RespondFriends("follow", u, NoUser, 401, "Not authenticated", {}, <<>>)
            /\ UNCHANGED friendships
       ELSE IF ~bodyValid
       THEN /\ RespondFriends("follow", u, NoUser, 400, "User ID is required", {}, <<>>)
            /\ UNCHANGED friendships
       ELSE IF userId \notin DOMAIN users
       THEN /\ RespondFriends("follow", u, userId, 404, "User not found", {}, <<>>)
            /\ UNCHANGED friendships
       ELSE IF FriendshipOf(u, userId) # {}
       THEN /\ RespondFriends("follow", u, userId, 400, "Already following this user", {}, <<>>)
            /\ UNCHANGED friendships
       ELSE /\ friendships' = friendships \cup
                   {[id |-> NewFriendshipId(u, userId), followerId |-> u, followingId |-> userId]}
            /\ RespondFriends("follow", u, userId, 201, "", {}, <<>>)

\* the follow without the findUnique of an existing friendship
FollowUnchecked(u, userId, bodyValid) ==
    /\ before' = {}
    /\ UNCHANGED <<now, habits, completions, reqs, users, signups, auth>>
    /\ IF u = NoUser
       THEN /\ RespondFriends("follow", u, NoUser, 401, "Not authenticated", {}, <<>>)
            /\ UNCHANGED friendships
       ELSE IF ~bodyValid
       THEN /\ RespondFriends("follow", u, NoUser, 400, "User ID is required", {}, <<>>)
            /\ UNCHANGED friendships
       ELSE IF userId = u
       THEN /\ RespondFriends("follow", u, userId, 400, "Cannot follow yourself", {}, <<>>)
            /\ UNCHANGED friendships
       ELSE IF userId \notin DOMAIN users
       THEN /\ RespondFriends("follow", u, userId, 404, "User not found", {}, <<>>)
            /\ UNCHANGED friendships
       ELSE /\ Cardinality(FriendshipOf(u, userId)) < 2
            /\ friendships' = friendships \cup
                   {[id |-> NewFriendshipId(u, userId), followerId |-> u, followingId |-> userId]}
            /\ RespondFriends("follow", u, userId, 201, "", {}, <<>>)

\* POST /api/friends
Follow(u, userId, bodyValid) ==
    /\ before' = {}
    /\ UNCHANGED <<now, habits, completions, reqs, users, signups, auth>>
    /\ IF u = NoUser
       THEN /\ RespondFriends("follow", u, NoUser, 401, "Not authenticated", {}, <<>>)
            /\ UNCHANGED friendships
       ELSE IF ~bodyValid
       THEN /\ RespondFriends("follow", u, NoUser, 400, "User ID is required", {}, <<>>)
            /\ UNCHANGED friendships
       ELSE IF userId = u
       THEN /\ RespondFriends("follow", u, userId, 400, "Cannot follow yourself", {}, <<>>)
            /\ UNCHANGED friendships
       ELSE IF userId \notin DOMAIN users
       THEN /\ RespondFriends("follow", u, userId, 404, "User not found", {}, <<>>)
            /\ UNCHANGED friendships
       ELSE IF FriendshipOf(u, userId) # {}
       THEN /\ RespondFriends("follow", u, userId, 400, "Already following this user", {}, <<>>)
            /\ UNCHANGED friendships
       ELSE /\ friendships' = friendships \cup
                   {[id |-> NewFriendshipId(u, userId), followerId |-> u, followingId |-> userId]}
            /\ RespondFriends("follow", u, userId, 201, "", {}, <<>>)

\* the unfollow that deletes the edges of both directions
UnfollowBoth(u, userId) ==
    /\ before' = {}
    /\ UNCHANGED <<now, habits, completions, reqs, users, signups, auth>>
    /\ IF u = NoUser
       THEN /\ RespondFriends("unfollow", u, NoUser, 401, "Not authenticated", {}, <<>>)
            /\ UNCHANGED friendships
       ELSE IF FriendshipOf(u, userId) = {}
       THEN /\ RespondFriends("unfollow", u, userId, 404, "Not following this user", {}, <<>>)
            /\ UNCHANGED friendships
       ELSE /\ friendships' = friendships \ (FriendshipOf(u, userId) \cup FriendshipOf(userId, u))
            /\ RespondFriends("unfollow", u, userId, 200, "", {}, <<>>)

\* DELETE /api/friends/[userId]
Unfollow(u, userId) ==
    /\ before' = {}
    /\ UNCHANGED <<now, habits, completions, reqs, users, signups, auth>>
    /\ IF u = NoUser
       THEN /\ RespondFriends("unfollow", u, NoUser, 401, "Not authenticated", {}, <<>>)
            /\ UNCHANGED friendships
       ELSE IF FriendshipOf(u, userId) = {}
       THEN /\ RespondFriends("unfollow", u, userId, 404, "Not following this user", {}, <<>>)
            /\ UNCHANGED friendships
       ELSE \E friendship \in FriendshipOf(u, userId) :
                /\ friendships' = friendships \ {friendship}
                /\ RespondFriends("unfollow", u, userId, 200, "", {}, <<>>)

\* follow, unfollow and list requests of every user, run one at a time
NextFollow ==
    \/ Tick
    \/ \E u \in Members, userId \in UserIds, bodyValid \in BOOLEAN : Follow(u, userId, bodyValid)
    \/ \E u \in Members, userId \in UserIds : Unfollow(u, userId)
    \/ \E u \in Members, type \in FriendsTypes : GetFriends(u, type)

SpecFollow == Init /\ [][NextFollow]_vars

\* ---- the activity feed over long histories ------------------------------
\* Every member owns the habit of the same number.  Member 1 checked in once
\* in each of the last `long` periods, every other member in each of the
\* `short` periods before the current one.  Member 2 follows, unfollows and
\* reads the feed.
FeedDay == DaysPerWeek * (MaxFeed + 4)

HistoryOf(m, frequency, at, run, skip, shift) ==
    {[id |-> <<m, HistoryInstant(frequency, at, i, shift), 1>>,
      habitId |-> m, userId |-> m,
      completedAt |-> HistoryInstant(frequency, at, i, shift)] : i \in skip..(skip + run - 1)}

FeedViewer == 2

InitFeed ==
    \E frequency \in Frequencies, tod \in 0..(TicksPerDay - 1),
       long \in {0, 1, MaxFeed - 1, MaxFeed}, short \in 0..2, shift \in 0..(TicksPerDay - 1) :
        /\ now = FeedDay * TicksPerDay + tod
        /\ habits = [m \in Members |->
                        [userId |-> m, name |-> NthName(1), frequency |-> frequency]]
        /\ completions =
               HistoryOf(1, frequency, now, long, 0, shift)
                   \cup UNION {HistoryOf(m, frequency, now, short, 1, shift + m) :
                                 m \in Members \ {1}}
        /\ last = NoRequest
        /\ before = {}
        /\ reqs = [p \in Slots |-> Idle]
        /\ friendships = {}
        /\ users = InitialUsers
        /\ signups = NoSignups
        /\ auth = Mounted(NoUser)

NextFeed ==
    \/ \E userId \in UserIds : Follow(FeedViewer, userId, TRUE)
    \/ \E userId \in UserIds : Unfollow(FeedViewer, userId)
    \/ GetFriends(FeedViewer, "activity")

SpecFeed == InitFeed /\ [][NextFeed]_vars

\* ---- check-ins and the feed of a follower -------------------------------
\* Habit h belongs to member h.  The owners check in, the clock advances and
\* member 2 follows, unfollows and reads the feed.
InitSocial ==
    /\ now \in (StartDay * TicksPerDay)..(StartDay * TicksPerDay + TicksPerDay - 1)
    /\ \E frequency \in [HabitIds -> Frequencies] :
           habits = [h \in HabitIds |->
                        [userId |-> h, name |-> NthName(1), frequency |-> frequency[h]]]
    /\ completions = {}
    /\ last = NoRequest
    /\ before = {}
    /\ reqs = [p \in Slots |-> Idle]
    /\ friendships = {}
    /\ users = InitialUsers
    /\ signups = NoSignups
    /\ auth = Mounted(NoUser)

NextSocial ==
    \/ Tick
    \/ \E h \in HabitIds : CheckIn(habits[h].userId, h, TRUE)
    \/ \E userId \in Members : Follow(FeedViewer, userId, TRUE)
    \/ \E userId \in Members : Unfollow(FeedViewer, userId)
    \/ GetFriends(FeedViewer, "activity")

SpecSocial == InitSocial /\ [][NextSocial]_vars

\* ---- /api/profile -------------------------------------------------------
RECURSIVE ProfileDailyWalk(_, _, _, _)
ProfileDailyWalk(rows, i, checkDate, streak) ==
    IF i > Len(rows) THEN streak
    ELSE LET completionDate == StartOfDay(rows[i].completedAt)
         IN  IF completionDate = checkDate
             THEN ProfileDailyWalk(rows, i + 1, AddDays(checkDate, -1), streak + 1)
             ELSE IF completionDate < checkDate
                  THEN streak
                  ELSE ProfileDailyWalk(rows, i + 1, checkDate, streak)

RECURSIVE ProfileWeeklyWalk(_, _, _, _)
ProfileWeeklyWalk(rows, i, checkWeek, streak) ==
    IF i > Len(rows) THEN streak
    ELSE LET completionWeekStart == StartOfDay(BackToSunday(rows[i].completedAt))
         IN  IF completionWeekStart = checkWeek
             THEN ProfileWeeklyWalk(rows, i + 1, AddDays(checkWeek, 0 - DaysPerWeek), streak + 1)
             ELSE IF completionWeekStart < checkWeek
                  THEN streak
                  ELSE ProfileWeeklyWalk(rows, i + 1, checkWeek, streak)

\* the copy without the weekly branch
ProfileStreakDailyOnly(frequency, rows, today) == ProfileDailyWalk(rows, 1, today, 0)

ProfileStreak(frequency, rows, today) ==
    IF frequency = "daily"
    THEN ProfileDailyWalk(rows, 1, today, 0)
    ELSE ProfileWeeklyWalk(rows, 1, BackToSunday(today), 0)

\* habitsWithStats
ProfileHabitStats(h, at) ==
    LET rows == HabitRows(h)
    IN  [streak |-> ProfileStreak(habits[h].frequency, rows, StartOfDay(at)),
         progress |-> Progress(habits[h].frequency, rows, at),
         totalCompletions |-> Cardinality({c \in completions : c.habitId = h})]

\* Math.max(...streaks), 0 without habits
MaxStreak(stats) ==
    IF DOMAIN stats = {} THEN 0
    ELSE CHOOSE n \in {stats[h].streak : h \in DOMAIN stats} :
             \A h \in DOMAIN stats : stats[h].streak <= n

Profile(u, stats) ==
    [email |-> users[u].email,
     username |-> users[u].username,
     totalHabits |-> Cardinality(HabitsOf(u)),
     totalCompletions |-> Cardinality({c \in completions : c.userId = u}),
     followersCount |-> Cardinality({f \in friendships : f.followingId = u}),
     followingCount |-> Cardinality({f \in friendships : f.followerId = u}),
     currentStreak |-> MaxStreak(stats),
     longestStreak |-> MaxStreak(stats)]

RespondProfile(op, u, status, error, stats, profile) ==
    last' = [NoRequest EXCEPT
               !.op = op, !.user = u, !.status = status, !.error = error,
               !.stats = stats, !.profile = profile]

\* GET /api/profile
GetProfile(u) ==
    /\ before' = {}
    /\ UNCHANGED <<now, habits, completions, reqs, friendships, users, signups, auth>>
    /\ IF u = NoUser
       THEN RespondProfile("profile", u, 401, "Not authenticated", NoStats, NoStats)
       ELSE IF u \notin DOMAIN users
       THEN RespondProfile("profile", u, 404, "User not found", NoStats, NoStats)
       ELSE LET stats == [h \in HabitsOf(u) |-> ProfileHabitStats(h, now)]
            IN  RespondProfile("profile", u, 200, "", stats, Profile(u, stats))

\* PUT /api/profile; of the body only the username is modelled
UpdateProfile(u, username) ==
    /\ before' = {}
    /\ UNCHANGED <<now, habits, completions, reqs, friendships, signups, auth>>
    /\ IF u = NoUser
       THEN /\ RespondProfile("setprofile", u, 401, "Not authenticated", NoStats, NoStats)
            /\ UNCHANGED users
       ELSE IF username # NoName /\ Len(username) < MinUsername
       THEN /\ RespondProfile("setprofile", u, 400,
                              "Username must be at least 3 characters", NoStats, NoStats)
            /\ UNCHANGED users
       ELSE IF /\ username # NoName
               /\ username # users[u].username
               /\ \E e \in DOMAIN users : users[e].username = username
       THEN /\ RespondProfile("setprofile", u, 400, "Username already taken", NoStats, NoStats)
            /\ UNCHANGED users
       ELSE /\ users' = [users EXCEPT
                           ![u].username = IF username = NoName THEN @ ELSE username]
            /\ RespondProfile("setprofile", u, 200, "", NoStats, NoStats)

\* ---- GET /api/users/search ---------------------------------------------
\* { contains: query, mode: "insensitive" }
Contains(s, query) ==
    \E i \in 0..(Len(s) - Len(query)) :
        SubSeq(ToLowerCase(s), i + 1, i + Len(query)) = ToLowerCase(query)

\* the users found; user ids grow with the creation time, and the 20 newest
\* are taken
SearchUsers(u, query) ==
    /\ before' = {}
    /\ UNCHANGED <<now, habits, completions, reqs, friendships, users, signups, auth>>
    /\ IF u = NoUser
       THEN RespondFriends("search", u, NoUser, 401, "Not authenticated", {}, <<>>)
       ELSE LET followingIds == FollowedUserIds(u)
                found == {id \in DOMAIN users :
                            /\ id # u
                            /\ id \notin followingIds
                            /\ \/ Contains(users[id].username, query)
                               \/ Contains(users[id].email, query)}
            IN  RespondFriends("search", u, NoUser, 200, "",
                               {id \in found :
                                   Cardinality({j \in found : j > id}) < SearchTake},
                               <<>>)

\* ---- POST /api/auth/login -----------------------------------------------
\* z.string().email(): something, an @ and something
IsEmail(s) == \E i \in 2..(Len(s) - 1) : s[i] = "@"

\* the auth-token cookie carries a token of the user's id
RespondLogin(email, password, status, error, cookie) ==
    last' = [NoRequest EXCEPT
               !.op = "login", !.status = status, !.error = error,
               !.email = email, !.password = password, !.cookie = cookie]

\* findFirst({ where: { email: { equals: email.toLowerCase(), mode: "insensitive" } } })
UsersByEmail(email) ==
    {id \in DOMAIN users : ToLowerCase(users[id].email) = ToLowerCase(ToLowerCase(email))}

\* the login that tells an unknown email from a wrong password
LoginTelling(email, password) ==
    /\ before' = {}
    /\ UNCHANGED <<now, habits, completions, reqs, friendships, users, signups, auth>>
    /\ IF ~IsEmail(email)
       THEN RespondLogin(email, password, 400, "Invalid email address", NoUser)
       ELSE IF Len(password) < 1
       THEN RespondLogin(email, password, 400, "Password is required", NoUser)
       ELSE IF UsersByEmail(email) = {}
       THEN RespondLogin(email, password, 404, "User not found", NoUser)
       ELSE \E user \in UsersByEmail(email) :
                IF ~VerifyPassword(password, users[user].password)
                THEN RespondLogin(email, password, 401, "Invalid email or password", NoUser)
                ELSE RespondLogin(email, password, 200, "", user)

Login(email, password) ==
    /\ before' = {}
    /\ UNCHANGED <<now, habits, completions, reqs, friendships, users, signups, auth>>
    /\ IF ~IsEmail(email)
       THEN RespondLogin(email, password, 400, "Invalid email address", NoUser)
       ELSE IF Len(password) < 1
       THEN RespondLogin(email, password, 400, "Password is required", NoUser)
       ELSE IF UsersByEmail(email) = {}
       THEN RespondLogin(email, password, 401, "Invalid email or password", NoUser)
       ELSE \E user \in UsersByEmail(email) :
                IF ~VerifyPassword(password, users[user].password)
                THEN RespondLogin(email, password, 401, "Invalid email or password", NoUser)
                ELSE RespondLogin(email, password, 200, "", user)

\* the emails of the members in lower and in upper case, two emails of no
\* user and two strings that are no email; the members' passwords, a
\* password of no user and the empty password
LoginEmails ==
    {<<Alphabet[m], "@", "x">> : m \in Members}
        \cup {<<UpperCase[m], "@", "x">> : m \in Members}
        \cup {<<"f", "@", "x">>, <<"F", "@", "y">>, <<"f">>, <<"@">>}

LoginPasswords == {PasswordOf(m) : m \in Members} \cup {<<"P", "f", "1">>, <<>>}

NextLogin ==
    \/ Tick
    \/ \E email \in LoginEmails, password \in LoginPasswords : Login(email, password)

SpecLogin == Init /\ [][NextLogin]_vars

\* ---- POST /api/auth/signup ----------------------------------------------
IsLower(c) == \E i \in 1..Len(Alphabet) : Alphabet[i] = c

IsUpper(c) == \E i \in 1..Len(UpperCase) : UpperCase[i] = c

IsDigit(c) == c \in {"0", "1"}

\* /^(?=.*[a-z])(?=.*[A-Z])(?=.*\d)[A-Za-z\d@$!%*?&]{8,}$/
StrongPassword(password) ==
    /\ \E i \in 1..Len(password) : IsLower(password[i])
    /\ \E i \in 1..Len(password) : IsUpper(password[i])
    /\ \E i \in 1..Len(password) : IsDigit(password[i])
    /\ \A i \in 1..Len(password) :
           IsLower(password[i]) \/ IsUpper(password[i]) \/ IsDigit(password[i])
               \/ password[i] \in {"@", "$", "!", "%", "*", "?", "&"}
    /\ Len(password) >= MinPassword

\* /^[a-zA-Z0-9_-]+$/
PlainUsername(username) ==
    /\ Len(username) >= 1
    /\ \A i \in 1..Len(username) :
           IsLower(username[i]) \/ IsUpper(username[i]) \/ IsDigit(username[i])
               \/ username[i] \in {"_", "-"}

\* the response; the auth-token cookie carries a token of the new user's id
RespondSignup(email, username, status, error, cookie) ==
    last' = [NoRequest EXCEPT
               !.op = "signup", !.status = status, !.error = error,
               !.email = email, !.username = username, !.cookie = cookie]

\* findFirst({ where: { OR: [email insensitive, username insensitive] } })
ExistingUsers(email, username) ==
    {id \in DOMAIN users :
        \/ ToLowerCase(users[id].email) = ToLowerCase(email)
        \/ ToLowerCase(users[id].username) = ToLowerCase(username)}

\* user ids grow with the creation time
NewUserId == Cardinality(DOMAIN users) + 1

\* how the two database calls of one signup end: both in time, the lookup
\* rejected or beaten by its 15-second timer, the create rejected, or the
\* create beaten by its 15-second timer and left pending
SignupOutcomes == {"ok", "lookup fails", "create fails", "create times out"}

Signup(email, password, username, db) ==
    /\ before' = {}
    /\ UNCHANGED <<now, habits, completions, reqs, friendships, auth>>
    /\ LET mail == ToLowerCase(Trim(email))
           name == Trim(username)
       IN  IF ~IsEmail(email)
           THEN /\ RespondSignup(email, username, 400, "Invalid email address", NoUser)
                /\ UNCHANGED <<users, signups>>
           ELSE IF Len(password) < MinPassword
           THEN /\ RespondSignup(email, username, 400,
                                 "Password must be at least 8 characters", NoUser)
                /\ UNCHANGED <<users, signups>>
           ELSE IF ~StrongPassword(password)
           THEN /\ RespondSignup(email, username, 400,
                                 "Password must contain at least one uppercase letter, one lowercase letter, and one number",
                                 NoUser)
                /\ UNCHANGED <<users, signups>>
           ELSE IF Len(username) < MinSignupUsername
           THEN /\ RespondSignup(email, username, 400,
                                 "Username must be at least 3 characters", NoUser)
                /\ UNCHANGED <<users, signups>>
           ELSE IF ~PlainUsername(username)
           THEN /\ RespondSignup(email, username, 400,
                                 "Username can only contain letters, numbers, underscores, and hyphens",
                                 NoUser)
                /\ UNCHANGED <<users, signups>>
           ELSE IF db = "lookup fails"
           THEN /\ RespondSignup(email, username, 503,
                                 "Database connection failed. Please try again later.", NoUser)
                /\ UNCHANGED <<users, signups>>
           ELSE IF ExistingUsers(mail, name) # {}
           THEN /\ \E existingUser \in ExistingUsers(mail, name) :
                       RespondSignup(email, username, 400,
                                     IF ToLowerCase(users[existingUser].email) = ToLowerCase(mail)
                                     THEN "Email already registered"
                                     ELSE "Username already taken",
                                     NoUser)
                /\ UNCHANGED <<users, signups>>
           ELSE IF db = "create fails"
           THEN /\ RespondSignup(email, username, 500,
                                 "Failed to create user. Please try again later.", NoUser)
                /\ UNCHANGED <<users, signups>>
           ELSE IF db = "create times out"
           THEN /\ RespondSignup(email, username, 500,
                                 "Failed to create user. Please try again later.", NoUser)
                /\ signups' = [signups EXCEPT !.pending = @ \cup
                                  {[email |-> mail, username |-> name,
                                    password |-> HashPassword(password)]}]
                /\ UNCHANGED users
           ELSE /\ Cardinality(DOMAIN users) < NumMembers + MaxSignups
                /\ users' = [id \in DOMAIN users \cup {NewUserId} |->
                               IF id = NewUserId
                               THEN [email |-> mail, username |-> name,
                                     password |-> HashPassword(password)]
                               ELSE users[id]]
                /\ signups' = [signups EXCEPT !.registered = @ \cup {mail}]
                /\ RespondSignup(email, username, 201, "", NewUserId)

\* a user.create that lost the race against its timer completes after the
\* response was sent: the database stores the row, unless a row with the same
\* email or the same username has been stored since
SignupCreateLands(row) ==
    /\ row \in signups.pending
    /\ Cardinality(DOMAIN users) < NumMembers + MaxSignups
    /\ \A id \in DOMAIN users :
           users[id].email # row.email /\ users[id].username # row.username
    /\ users' = [id \in DOMAIN users \cup {NewUserId} |->
                   IF id = NewUserId THEN row ELSE users[id]]
    /\ signups' = [signups EXCEPT !.pending = @ \ {row}]
    /\ UNCHANGED <<now, habits, completions, last, before, reqs, friendships, auth>>

\* or it is rejected by the database, or never answered
SignupCreateFails(row) ==
    /\ row \in signups.pending
    /\ signups' = [signups EXCEPT !.pending = @ \ {row}]
    /\ UNCHANGED <<now, habits, completions, last, before, reqs, friendships, users, auth>>

\* an email of a member in upper case, an email of no user in lower and in
\* upper case and a string that is no email; likewise the usernames, the
\* last one too short; a password that passes and one that is too short
SignupEmails == {<<"A", "@", "x">>, <<"f", "@", "x">>, <<"F", "@", "x">>, <<"f">>}

SignupUsernames == {<<"A", "a", "a">>, <<"f", "f", "f">>, <<"F", "f", "f">>, <<"f", "f">>}

SignupPasswords == {<<"A", "a", "1", "a", "a", "a", "a", "a">>, <<"A", "a", "1">>}

\* the usernames sent to PUT /api/profile: none, one that differs from a
\* member's in letter case only, and new ones
ProfileUsernames ==
    {NoName, <<"A", "a", "a">>, <<"b", "b", "b">>, <<"f", "f", "f">>, <<"f", "f">>}

\* signups and profile updates, each run to its end before the next starts
NextAccounts ==
    \/ \E email \in SignupEmails, password \in SignupPasswords,
          username \in SignupUsernames : Signup(email, password, username, "ok")
    \/ \E u \in DOMAIN users, username \in ProfileUsernames : UpdateProfile(u, username)

SpecAccounts == Init /\ [][NextAccounts]_vars

\* signups whose database calls may fail or time out
NextSignup ==
    \/ \E email \in SignupEmails, password \in SignupPasswords,
          username \in SignupUsernames, db \in SignupOutcomes :
           Signup(email, password, username, db)
    \/ \E row \in signups.pending : SignupCreateLands(row)
    \/ \E row \in signups.pending : SignupCreateFails(row)

SpecSignup == Init /\ [][NextSignup]_vars

\* ---- requests of owners, of other users and of nobody -------------------
\* Habit h belongs to member h and member 1 follows member 2.  Every member
\* and a client without a session address the habit routes, also with a
\* habit id that is not stored; the client without a session addresses every
\* other route as well.
AddressedHabits == HabitIds \cup {MaxHabits + 1}

Callers == Members \cup {NoUser}

InitAccess ==
    /\ now \in (StartDay * TicksPerDay)..(StartDay * TicksPerDay + TicksPerDay - 1)
    /\ \E frequency \in [HabitIds -> Frequencies] :
           habits = [h \in HabitIds |->
                        [userId |-> h, name |-> NthName(1), frequency |-> frequency[h]]]
    /\ completions = {}
    /\ last = NoRequest
    /\ before = {}
    /\ reqs = [p \in Slots |-> Idle]
    /\ friendships = {[id |-> <<1, 2, 1>>, followerId |-> 1, followingId |-> 2]}
    /\ users = InitialUsers
    /\ signups = NoSignups
    /\ auth = Mounted(NoUser)

NextAccess ==
    \/ Tick
    \/ \E u \in Callers, h \in AddressedHabits : CheckIn(u, h, TRUE)
    \/ \E u \in Callers, h \in AddressedHabits : UndoCheckIn(u, h)
    \/ \E u \in Callers, h \in AddressedHabits, frequency \in Frequencies :
           UpdateHabit(u, h, NoName, frequency)
    \/ \E u \in Callers, h \in AddressedHabits : DeleteHabit(u, h)
    \/ GetHabits(NoUser)
    \/ \E frequency \in Frequencies : CreateHabit(NoUser, NthName(2), frequency)
    \/ \E type \in FriendsTypes : GetFriends(NoUser, type)
    \/ \E userId \in UserIds : Follow(NoUser, userId, TRUE)
    \/ \E userId \in UserIds : Unfollow(NoUser, userId)
    \/ GetProfile(NoUser)
    \/ \E m \in Members : UpdateProfile(NoUser, users[m].username)
    \/ \E m \in Members : SearchUsers(NoUser, users[m].username)

SpecAccess == InitAccess /\ [][NextAccess]_vars

\* ---- creations and renames of habits ------------------------------------
\* Every member creates daily habits and renames habits, also those of
\* others, with names that differ in white space only; the store holds up to
\* MaxNamed habits.
MaxNamed == MaxHabits + 2

NextNames ==
    \/ \E u \in Members, name \in RawNames :
           /\ Cardinality(DOMAIN habits) < MaxNamed
           /\ CreateHabit(u, name, "daily")
    \/ \E u \in Members, h \in 1..MaxNamed, name \in RawNames :
           UpdateHabit(u, h, name, NoValue)

SpecNames == Init /\ [][NextNames]_vars

\* ---- AuthProvider --------------------------------------------------------
\* One browser.  Every step is one callback of the component: a timer that
\* fires or a fetch that returns.  The routes it calls are taken by their
\* answers: GET /api/auth/me answers with the user of the cookie the request
\* carried or it fails (401 without a valid cookie, 500, or a network error),
\* POST /api/auth/login answers with a user and sets the cookie or it fails.
MeAnswers(cookie) == {cookie, NoUser}

\* the timer callback that leaves initialized alone
TimerSetsLoadingOnly ==
    /\ auth.timer = "armed"
    /\ auth' = [auth EXCEPT !.loading = FALSE, !.timer = "fired"]
    /\ UNCHANGED <<now, habits, completions, last, before, reqs, friendships, users, signups>>

\* the 10-second timer of the mount effect fires
TimerFires ==
    /\ auth.timer = "armed"
    /\ auth' = [auth EXCEPT !.loading = FALSE, !.initialized = TRUE, !.timer = "fired"]
    /\ UNCHANGED <<now, habits, completions, last, before, reqs, friendships, users, signups>>

\* checkAuth(false) of the mount effect gets its answer: setUser, the finally
\* block, and clearTimeout once performCheck settles
MountCheckReturns(answer) ==
    /\ auth.check = "pending"
    /\ answer \in MeAnswers(auth.checkCookie)
    /\ auth' = [auth EXCEPT !.user = answer, !.loading = FALSE, !.initialized = TRUE,
                            !.check = "done",
                            !.timer = IF @ = "armed" THEN "cleared" ELSE @]
    /\ UNCHANGED <<now, habits, completions, last, before, reqs, friendships, users, signups>>

\* a child calls login(): the children are rendered once initialized is true
LoginCalled ==
    /\ auth.initialized
    /\ auth.login = "idle"
    /\ auth' = [auth EXCEPT !.loading = TRUE, !.login = "posting", !.session = FALSE]
    /\ UNCHANGED <<now, habits, completions, last, before, reqs, friendships, users, signups>>

\* POST /api/auth/login returns: with user m and the cookie, or not ok
LoginReturns(m) ==
    /\ auth.login = "posting"
    /\ auth' = IF m # NoUser
               THEN [auth EXCEPT !.user = m, !.cookie = m, !.login = "waiting"]
               ELSE [auth EXCEPT !.user = NoUser, !.loading = FALSE, !.login = "idle"]
    /\ UNCHANGED <<now, habits, completions, last, before, reqs, friendships, users, signups>>

\* the 100 ms wait is over: checkAuth(false) sends GET /api/auth/me
LoginWaited ==
    /\ auth.login = "waiting"
    /\ auth' = [auth EXCEPT !.login = "verifying", !.verifyCookie = auth.cookie]
    /\ UNCHANGED <<now, habits, completions, last, before, reqs, friendships, users, signups>>

\* the checkAuth(false) of login() gets its answer and login() settles
VerifyReturns(answer) ==
    /\ auth.login = "verifying"
    /\ answer \in MeAnswers(auth.verifyCookie)
    /\ auth' = [auth EXCEPT !.user = answer, !.loading = FALSE, !.initialized = TRUE,
                            !.login = "idle", !.session = (answer # NoUser)]
    /\ UNCHANGED <<now, habits, completions, last, before, reqs, friendships, users, signups>>

\* logout(): POST /api/auth/logout clears the cookie, or the fetch throws
Logout(ok) ==
    /\ auth.initialized
    /\ auth' = IF ok
               THEN [auth EXCEPT !.user = NoUser, !.cookie = NoUser, !.session = FALSE]
               ELSE [auth EXCEPT !.session = FALSE]
    /\ UNCHANGED <<now, habits, completions, last, before, reqs, friendships, users, signups>>

\* the browser holds no cookie or the cookie of a member when the page loads
InitAuth ==
    /\ now \in (StartDay * TicksPerDay)..(StartDay * TicksPerDay + TicksPerDay - 1)
    /\ habits = [h \in {} |-> 0]
    /\ completions = {}
    /\ last = NoRequest
    /\ before = {}
    /\ reqs = [p \in Slots |-> Idle]
    /\ friendships = {}
    /\ users = InitialUsers
    /\ signups = NoSignups
    /\ auth \in {Mounted(cookie) : cookie \in Members \cup {NoUser}}

NextAuth ==
    \/ TimerFires
    \/ \E answer \in Members \cup {NoUser} : MountCheckReturns(answer)
    \/ LoginCalled
    \/ \E m \in Members \cup {NoUser} : LoginReturns(m)
    \/ LoginWaited
    \/ \E answer \in Members \cup {NoUser} : VerifyReturns(answer)
    \/ \E ok \in BOOLEAN : Logout(ok)

\* an armed timer fires; no fetch is bound to return
SpecAuth == InitAuth /\ [][NextAuth]_vars /\ WF_vars(TimerFires)

\* ---- the three streak routines over long histories ----------------------
\* Member 1 owns one habit and checked in once in each of `run` consecutive
\* periods, the newest of them `skip` periods before the period of the
\* clock, and `dup` more times in that newest period.  The member reads the
\* habits and the profile; member 2 follows member 1 and reads the feed.
Runs == {0, 1, 2, MaxRun - 2, MaxRun - 1, MaxRun}

Duplicates(frequency, at, run, skip, dup, shift) ==
    IF run = 0 THEN {}
    ELSE {[id |-> <<1, HistoryInstant(frequency, at, skip, shift + 1), k + 1>>,
           habitId |-> 1, userId |-> 1,
           completedAt |-> HistoryInstant(frequency, at, skip, shift + 1)] : k \in 1..dup}

InitStreaks ==
    \E frequency \in Frequencies, d \in {0, 3}, tod \in 0..(TicksPerDay - 1),
       run \in Runs, skip \in 0..1, dup \in 0..1, shift \in 0..1 :
        /\ now = (HistoryDay + d) * TicksPerDay + tod
        /\ habits = [h \in {1} |-> [userId |-> 1, name |-> NthName(1), frequency |-> frequency]]
        /\ completions = History(frequency, now, run, skip, 0, shift)
                             \cup Duplicates(frequency, now, run, skip, dup, shift)
        /\ last = NoRequest
        /\ before = {}
        /\ reqs = [p \in Slots |-> Idle]
        /\ friendships = {[id |-> <<FeedViewer, 1, 1>>, followerId |-> FeedViewer,
                           followingId |-> 1]}
        /\ users = InitialUsers
        /\ signups = NoSignups
        /\ auth = Mounted(NoUser)

NextStreaks ==
    \/ GetHabits(1)
    \/ GetProfile(1)
    \/ GetFriends(FeedViewer, "activity")

SpecStreaks == InitStreaks /\ [][NextStreaks]_vars

\* ---- check-ins of every member and the feed of one ----------------------
\* Every member owns the habit of the same number and checks it in; member 2
\* follows and unfollows every member, itself too, and reads the feed.
InitOwnFeed ==
    /\ now \in (StartDay * TicksPerDay)..(StartDay * TicksPerDay + TicksPerDay - 1)
    /\ \E frequency \in Frequencies :
           habits = [m \in Members |->
                        [userId |-> m, name |-> NthName(1), frequency |-> frequency]]
    /\ completions = {}
    /\ last = NoRequest
    /\ before = {}
    /\ reqs = [p \in Slots |-> Idle]
    /\ friendships = {}
    /\ users = InitialUsers
    /\ signups = NoSignups
    /\ auth = Mounted(NoUser)

NextOwnFeed ==
    \/ Tick
    \/ \E m \in Members : CheckIn(m, m, TRUE)
    \/ \E userId \in Members : Follow(FeedViewer, userId, TRUE)
    \/ \E userId \in Members : Unfollow(FeedViewer, userId)
    \/ GetFriends(FeedViewer, "activity")

SpecOwnFeed == InitOwnFeed /\ [][NextOwnFeed]_vars

\* ---- the properties -----------------------------------------------------
\* a step that serves a request of kind op (the clock stands still while a
\* request is served)
Served(op) == now' = now /\ last'.op = op

RowsInPeriod(rows, h, frequency, t) == {c \in rows : InPeriod(c, h, frequency, t)}

\* C1: in every state reached by requests run one at a time, every habit has
\* at most one completion per calendar day (daily) or per Sunday-started
\* calendar week (weekly).
C1_AtMostOnePerPeriod ==
    \A h \in DOMAIN habits : \A c \in completions : \A d \in completions :
        (c.habitId = h /\ d.habitId = h /\ c # d)
            => PeriodStart(habits[h].frequency, c.completedAt)
                   # PeriodStart(habits[h].frequency, d.completedAt)

\* C2: the existence check and the insert are not atomic: when two check-ins
\* of the same habit both pass the check before either inserts, both are
\* answered 201, and if both rows are stamped in one period that period
\* holds two completions of the habit.
C2_CheckThenInsertRace ==
    \A p \in Slots : \A q \in Slots \ {p} :
        (reqs[p].raced /\ reqs[p].pc = "done" /\ reqs[q].pc = "done"
            /\ reqs[q].habit = reqs[p].habit)
        => /\ reqs[p].status = 201
           /\ reqs[q].status = 201
           /\ PeriodStart(reqs[p].frequency, reqs[p].completedAt)
                  = PeriodStart(reqs[p].frequency, reqs[q].completedAt)
              => Cardinality(RowsInPeriod(completions, reqs[p].habit,
                                          reqs[p].frequency, reqs[p].completedAt)) >= 2

C2_Witness ==
    \E p \in Slots : \E q \in Slots \ {p} :
        /\ reqs[p].raced
        /\ reqs[p].pc = "done" /\ reqs[p].status = 201
        /\ reqs[q].pc = "done" /\ reqs[q].status = 201
        /\ reqs[q].habit = reqs[p].habit
        /\ reqs[q].today = reqs[p].today
        /\ Cardinality(RowsInPeriod(completions, reqs[p].habit,
                                    reqs[p].frequency, reqs[p].today)) = 2

\* C3: a check-in that directly follows a check-in of the same habit answered
\* 201, within the same period, is answered 400 'Already completed for this
\* period' and creates no row: exactly one completion exists for the period.
C3_SecondCheckInRejected ==
    [][ \A u \in Users, h \in HabitIds :
          (CheckedInBefore(u, h, now) /\ Served("checkin")
             /\ last'.user = u /\ last'.habit = h)
          => /\ last'.status = 400
             /\ last'.error = "Already completed for this period"
             /\ completions' = completions
             /\ Cardinality(RowsInPeriod(completions', h, habits[h].frequency, now)) = 1
      ]_vars

C3_Witness ==
    /\ last.op = "checkin"
    /\ last.status = 400
    /\ last.error = "Already completed for this period"
    /\ last.afterCheckIn

\* C4: an undo that directly follows a successful check-in of the same habit,
\* within the same period, succeeds and leaves the completions exactly as they
\* were before the check-in.
C4_CheckInUndoRoundTrip ==
    [][ \A u \in Users, h \in HabitIds :
          (CheckedInBefore(u, h, now) /\ Served("undo")
             /\ last'.user = u /\ last'.habit = h)
          => /\ last'.status = 200
             /\ completions' = before
      ]_vars

C4_Witness ==
    /\ last.op = "undo"
    /\ last.status = 200
    /\ last.afterCheckIn
    /\ \E c \in completions : c.habitId = last.habit

C10_StatsAfterCheckIn ==
    [][ (Served("get") /\ last'.status = 200)
          => \A h \in DOMAIN last'.stats :
               LET done == RowsInPeriod(completions, h, habits[h].frequency, now) # {}
               IN  /\ done => (last'.stats[h].completedToday /\ last'.stats[h].streak >= 1)
                   /\ last'.stats[h].completedToday => done
      ]_vars

\* the period k periods before the period of instant t holds a completion of h
Completed(h, k, t) ==
    \E c \in completions :
        /\ c.habitId = h
        /\ PeriodStart(habits[h].frequency, c.completedAt)
               = PeriodStart(habits[h].frequency, t)
                   - k * PeriodDays(habits[h].frequency) * TicksPerDay

\* the number of consecutive completed periods, counted back from the period of t
RunLength(h, t) ==
    CHOOSE n \in 0..Cardinality(completions) :
        /\ \A k \in 0..(n - 1) : Completed(h, k, t)
        /\ ~Completed(h, n, t)

OnePerPeriod(h) ==
    \A c \in completions : \A d \in completions :
        (c.habitId = h /\ d.habitId = h /\ c # d)
            => PeriodStart(habits[h].frequency, c.completedAt)
                   # PeriodStart(habits[h].frequency, d.completedAt)

\* C6: a daily habit with one completion on each of the k+1 consecutive days
\* ending on the day of the request is reported with streak = k+1.
C6_DailyStreak ==
    [][ (Served("get") /\ last'.status = 200)
          => \A h \in DOMAIN last'.stats :
               (habits[h].frequency = "daily" /\ OnePerPeriod(h) /\ RunLength(h, now) >= 1)
                   => last'.stats[h].streak = RunLength(h, now)
      ]_vars

\* C7: the reported streak is the number of consecutive completed periods
\* counted back from the period of the request; it is 0 when the current
\* period has no completion.
C7_StreakStopsAtGap ==
    [][ (Served("get") /\ last'.status = 200)
          => \A h \in DOMAIN last'.stats :
               /\ last'.stats[h].streak = RunLength(h, now)
               /\ ~Completed(h, 0, now) => last'.stats[h].streak = 0
      ]_vars

\* C8: a weekly habit with one completion in the week of the request and in
\* each of the n-1 weeks before it is reported with streak = n.
C8_WeeklyStreak ==
    [][ (Served("get") /\ last'.status = 200)
          => \A h \in DOMAIN last'.stats :
               (habits[h].frequency = "weekly" /\ OnePerPeriod(h) /\ RunLength(h, now) >= 1)
                   => last'.stats[h].streak = RunLength(h, now)
      ]_vars

\* C9: GET /habits reports completedToday = true exactly when a completion
\* of the habit lies in the period of the request instant.
C9_CompletedToday ==
    [][ (Served("get") /\ last'.status = 200)
          => \A h \in DOMAIN last'.stats :
               last'.stats[h].completedToday <=> Completed(h, 0, now)
      ]_vars

\* the completions of habit h at or after the instant 30 days before t
Recent(rows, h, t) ==
    {c \in rows : c.habitId = h /\ c.completedAt >= t - ProgressWindowDays * TicksPerDay}

\* the nearest integer to 100 * n / d, halves upward: the q with
\* 2 * d * q <= 200 * n + d < 2 * d * (q + 1)
Percent(n, d) ==
    CHOOSE q \in 0..(100 * n + 1) :
        2 * d * q <= 200 * n + d /\ 200 * n + d < 2 * d * (q + 1)

\* the progress GET /habits would report for habit h if row c were not stored
ProgressWithout(h, c) ==
    Progress(habits[h].frequency,
             TakeRows(SortDesc({r \in completions \ {c} : r.habitId = h}), Take), now)

\* C11: the progress of a habit is min(100, round(100 * recent / expected))
\* with recent the number of its completions at or after the request instant
\* minus 30 days and expected 30 (daily) or 5 (weekly); it is an integer in
\* 0..100, it is 0 when no completion lies in that window, and it is not
\* smaller than it would be without any one of the completions of the window.
C11_Progress ==
    [][ (Served("get") /\ last'.status = 200)
          => \A h \in DOMAIN last'.stats :
               LET recent == Recent(completions, h, now)
                   expected == IF habits[h].frequency = "daily" THEN 30 ELSE 5
                   progress == last'.stats[h].progress
               IN  /\ progress = (IF Percent(Cardinality(recent), expected) > 100 THEN 100
                                  ELSE Percent(Cardinality(recent), expected))
                   /\ progress \in 0..100
                   /\ recent = {} => progress = 0
                   /\ \A c \in recent : ProgressWithout(h, c) <= progress
      ]_vars

\* a response whose progress is a quotient rounded upward
C11_Witness ==
    /\ last.op = "get"
    /\ last.status = 200
    /\ \E h \in DOMAIN last.stats :
           /\ last.stats[h].progress \in 1..99
           /\ last.stats[h].progress * (IF habits[h].frequency = "daily" THEN 30 ELSE 5)
                  > 100 * Cardinality(Recent(completions, h, now))

\* user a follows user b
Follows(a, b) == \E f \in friendships : f.followerId = a /\ f.followingId = b

Following(a) == {b \in UserIds : Follows(a, b)}

Followers(b) == {a \in UserIds : Follows(a, b)}

\* C12: after any sequence of follow and unfollow requests the friendship
\* rows hold no edge from a user to that same user and at most one row for
\* each ordered (follower, followee) pair.
C12_FriendshipRelation ==
    /\ \A f \in friendships : f.followerId # f.followingId
    /\ \A f \in friendships : \A g \in friendships :
           (f.followerId = g.followerId /\ f.followingId = g.followingId) => f = g

\* a follow has succeeded and two users follow each other
C12_Witness ==
    /\ last.op = "follow"
    /\ last.status = 201
    /\ \E a \in Members, b \in Members : a # b /\ Follows(a, b) /\ Follows(b, a)

\* C13: a follow of oneself is answered 400, of a user id that does not
\* exist 404, of a user already followed 400; each leaves the friendship rows
\* unchanged.  Only a follow that passes the three checks is answered 201,
\* and it creates the edge.
C13_FollowRejections ==
    [][ (Served("follow") /\ last'.target # NoUser)
          => LET a == last'.user
                 b == last'.target
             IN  /\ b = a => (last'.status = 400 /\ friendships' = friendships)
                 /\ b \notin Members => (last'.status = 404 /\ friendships' = friendships)
                 /\ Follows(a, b) => (last'.status = 400 /\ friendships' = friendships)
                 /\ last'.status = 201
                        <=> (b # a /\ b \in Members /\ ~Follows(a, b))
                 /\ last'.status = 201
                        => \E f \in friendships' \ friendships :
                              /\ f.followerId = a /\ f.followingId = b
                              /\ friendships' = friendships \cup {f}
                 /\ last'.status # 201 => friendships' = friendships
      ]_vars

\* the second of two follows of the same user was rejected
C13_Witness ==
    /\ last.op = "follow"
    /\ last.status = 400
    /\ last.error = "Already following this user"
    /\ Follows(last.user, last.target)

\* C14: a successful follow by a of b adds only the edge a -> b: the users b
\* follows and the followers of a are the same as before.  A successful
\* unfollow by a of b removes only the edge a -> b and keeps an edge b -> a.
\* An unfollow of a user that a does not follow is answered 404 and changes
\* nothing.  The following and followers lists show these edges.
C14_OneWayFollow ==
    [][ \A a \in UserIds \cup {NoUser}, b \in UserIds \cup {NoUser} :
          (a = last'.user /\ b = last'.target) =>
            /\ (Served("follow") /\ last'.status = 201)
                  => /\ \A x \in UserIds, y \in UserIds :
                            Follows(x, y)' <=> (Follows(x, y) \/ (x = a /\ y = b))
                     /\ Following(b)' = Following(b)
                     /\ Followers(a)' = Followers(a)
            /\ (Served("unfollow") /\ a # NoUser)
                  => IF Follows(a, b)
                     THEN /\ last'.status = 200
                          /\ \A x \in UserIds, y \in UserIds :
                                 Follows(x, y)' <=> (Follows(x, y) /\ ~(x = a /\ y = b))
                          /\ Follows(b, a)' <=> Follows(b, a)
                     ELSE last'.status = 404 /\ friendships' = friendships
            /\ Served("following") => last'.users = Following(a)
            /\ Served("followers") => last'.users = Followers(a)
      ]_vars

\* a unfollowed b while b follows a
C14_Witness ==
    /\ last.op = "unfollow"
    /\ last.status = 200
    /\ Follows(last.target, last.user)
    /\ ~Follows(last.user, last.target)

\* the completions performed by the users that viewer a follows
FollowedCompletions(a) == {c \in completions : Follows(a, c.userId)}

InFeed(feed, c) ==
    \E i \in 1..Len(feed) :
        /\ feed[i].id = c.id
        /\ feed[i].userId = c.userId
        /\ feed[i].habitId = c.habitId
        /\ feed[i].completedAt = c.completedAt

\* C15: the activity feed of a viewer holds only completions of users the
\* viewer follows at query time, each once, in non-increasing order of
\* completion time, at most 50 of them and the most recent ones; it is empty,
\* with status 200, when the viewer follows nobody or the followed users
\* have no completion.
C15_ActivityFeed ==
    [][ Served("activity") =>
          LET feed == last'.activity
              followed == FollowedCompletions(last'.user)
          IN  /\ last'.status = 200
              /\ \A i \in 1..Len(feed) : \E c \in followed : c.id = feed[i].id
              /\ \A i \in 1..Len(feed) : \A j \in 1..Len(feed) :
                     /\ i # j => feed[i].id # feed[j].id
                     /\ i < j => feed[i].completedAt >= feed[j].completedAt
              /\ Len(feed) <= 50
              /\ Len(feed) = (IF Cardinality(followed) < 50 THEN Cardinality(followed) ELSE 50)
              /\ \A c \in followed :
                     InFeed(feed, c) \/ \A i \in 1..Len(feed) : c.completedAt <= feed[i].completedAt
              /\ followed = {} => feed = <<>>
      ]_vars

\* a feed of 50 entries out of more, while a user the viewer does not follow
\* has completions
C15_Witness ==
    /\ last.op = "activity"
    /\ last.status = 200
    /\ Len(last.activity) = 50
    /\ Cardinality(FollowedCompletions(last.user)) > 50
    /\ \E c \in completions : ~Follows(last.user, c.userId)

\* the entries of a feed that refer to habit h
EntriesOf(feed, h) == {i \in 1..Len(feed) : feed[i].habitId = h}

\* C16: when the viewer follows the owner of a habit and the owner has
\* checked that habit in once, the viewer's feed holds exactly one entry for
\* the habit, and its streak is the owner's current streak for the habit.
C16_FollowedCheckInInFeed ==
    [][ Served("activity") =>
          \A h \in DOMAIN habits :
              (/\ Follows(last'.user, habits[h].userId)
               /\ Cardinality({c \in completions : c.habitId = h}) = 1)
              => /\ Cardinality(EntriesOf(last'.activity, h)) = 1
                 /\ \A i \in EntriesOf(last'.activity, h) :
                        last'.activity[i].streak = RunLength(h, now)
      ]_vars

\* a feed with one entry, of a habit checked in once in the current period
C16_Witness ==
    /\ last.op = "activity"
    /\ Len(last.activity) = 1
    /\ last.activity[1].streak = 1
    /\ Follows(last.user, last.activity[1].userId)
    /\ Cardinality({c \in completions : c.habitId = last.activity[1].habitId}) = 1

\* C17: the streak of a feed entry is that of its habit at query time: the
\* entries of one feed that refer to the same habit carry the same streak,
\* and an entry of a habit without a completion in the current period
\* carries streak 0.
C17_FeedStreakAtQueryTime ==
    [][ Served("activity") =>
          LET feed == last'.activity
          IN  /\ \A i \in 1..Len(feed) : \A j \in 1..Len(feed) :
                     feed[i].habitId = feed[j].habitId => feed[i].streak = feed[j].streak
              /\ \A i \in 1..Len(feed) :
                     ~Completed(feed[i].habitId, 0, now) => feed[i].streak = 0
      ]_vars

\* a feed with an entry of an earlier period and an entry of the current
\* period of one habit, both with streak 2
C17_Witness ==
    /\ last.op = "activity"
    /\ \E i \in 1..Len(last.activity) : \E j \in 1..Len(last.activity) :
           /\ last.activity[i].habitId = last.activity[j].habitId
           /\ PeriodStart(habits[last.activity[i].habitId].frequency,
                          last.activity[i].completedAt)
                  < PeriodStart(habits[last.activity[i].habitId].frequency, now)
           /\ last.activity[i].streak = 2
           /\ last.activity[j].streak = 2

\* the users whose email is the given one, letter case ignored
Registered(email) ==
    {id \in DOMAIN users :
        /\ Len(users[id].email) = Len(email)
        /\ \A i \in 1..Len(email) :
               \/ users[id].email[i] = email[i]
               \/ \E k \in 1..Len(Alphabet) :
                      {users[id].email[i], email[i]} = {Alphabet[k], UpperCase[k]}}

\* C19: a well-formed login with an email of no user and a well-formed login
\* with a registered email and a wrong password get the same response:
\* status 401, the error 'Invalid email or password' and no auth-token
\* cookie.
C19_LoginFailuresAlike ==
    (last.op = "login" /\ IsEmail(last.email) /\ last.password # <<>>)
        => LET unknown == Registered(last.email) = {}
               wrong == /\ Registered(last.email) # {}
                        /\ \A id \in Registered(last.email) :
                               users[id].password # HashPassword(last.password)
           IN  (unknown \/ wrong)
                   => /\ last.status = 401
                      /\ last.error = "Invalid email or password"
                      /\ last.cookie = NoUser

\* a login with the email of a member in upper case and the password of
\* another member was rejected
C19_Witness ==
    /\ last.op = "login"
    /\ last.status = 401
    /\ Registered(last.email) # {}
    /\ \E m \in Members : last.email = <<UpperCase[m], "@", "x">>
    /\ \E m \in Members : last.password = PasswordOf(m)

\* the habit, check-in, friends, profile and user-search operations
GatedOps ==
    {"get", "create", "update", "delete", "checkin", "undo",
     "friends", "following", "followers", "activity", "follow", "unfollow",
     "profile", "setprofile", "search"}

\* C18: every habit, check-in, friends, profile and user-search request made
\* without an authenticated user is answered 401 and leaves the user, habit,
\* completion and friendship rows unchanged.
C18_Unauthenticated ==
    [][ (now' = now /\ last'.op \in GatedOps /\ last'.user = NoUser)
          => /\ last'.status = 401
             /\ last'.error = "Not authenticated"
             /\ users' = users
             /\ habits' = habits
             /\ completions' = completions
             /\ friendships' = friendships
      ]_vars

\* a delete without a session was answered 401 with habits, completions and
\* friendships stored
C18_Witness ==
    /\ last.op = "delete"
    /\ last.user = NoUser
    /\ last.status = 401
    /\ DOMAIN habits # {}
    /\ completions # {}
    /\ friendships # {}

\* C20: a well-formed update, delete, check-in or undo of a habit that
\* belongs to another user is answered like one of a habit id that is not
\* stored, 404 'Habit not found', and leaves the habits and the completions
\* unchanged.
C20_NotOwnerIsNotFound ==
    [][ (/\ now' = now
         /\ last'.op \in {"update", "delete", "checkin", "undo"}
         /\ last'.user # NoUser
         /\ \/ last'.habit \notin DOMAIN habits
            \/ habits[last'.habit].userId # last'.user)
          => /\ last'.status = 404
             /\ last'.error = "Habit not found"
             /\ habits' = habits
             /\ completions' = completions
      ]_vars

\* a request for a stored habit of another user, which has a completion,
\* was answered 404
C20_Witness ==
    /\ last.op \in {"update", "delete", "checkin", "undo"}
    /\ last.status = 404
    /\ last.user # NoUser
    /\ last.habit \in DOMAIN habits
    /\ habits[last.habit].userId # last.user
    /\ \E c \in completions : c.habitId = last.habit

\* another habit of owner u than habit h bears the name, trimmed
NameTaken(u, name, h) ==
    \E e \in DOMAIN habits \ {h} : habits[e].userId = u /\ Trim(habits[e].name) = Trim(name)

\* C21: after create-habit and update-habit requests run one at a time no two
\* habits of one owner have the same trimmed name.  A create or a rename of
\* an own habit whose trimmed name another habit of the owner bears is
\* answered 400 and changes nothing; any other one succeeds, whatever the
\* names of the habits of other owners, and stores the trimmed name.
C21_UniqueNames ==
    [][ /\ \A h \in DOMAIN habits' : \A e \in DOMAIN habits' :
               (h # e /\ habits'[h].userId = habits'[e].userId)
                   => Trim(habits'[h].name) # Trim(habits'[e].name)
        /\ Served("create") =>
               IF NameTaken(last'.user, last'.name, NoHabit)
               THEN last'.status = 400 /\ habits' = habits
               ELSE /\ last'.status = 201
                    /\ DOMAIN habits' = DOMAIN habits \cup {last'.habit}
                    /\ last'.habit \notin DOMAIN habits
                    /\ habits'[last'.habit].userId = last'.user
                    /\ habits'[last'.habit].name = Trim(last'.name)
                    /\ \A e \in DOMAIN habits : habits'[e] = habits[e]
        /\ \A h \in DOMAIN habits :
               (Served("update") /\ last'.habit = h /\ habits[h].userId = last'.user) =>
                  IF NameTaken(last'.user, last'.name, h)
                  THEN last'.status = 400 /\ habits' = habits
                  ELSE /\ last'.status = 200
                       /\ habits' = [habits EXCEPT ![h].name = Trim(last'.name)]
      ]_vars

\* a rename to a name that another habit of the owner bears once trimmed was
\* rejected, while a habit of another owner bears that name too
C21_Witness ==
    /\ last.op = "update"
    /\ last.status = 400
    /\ last.name # Trim(last.name)
    /\ NameTaken(last.user, last.name, last.habit)
    /\ \E e \in DOMAIN habits :
           habits[e].userId # last.user /\ habits[e].name = Trim(last.name)

\* two strings are equal when letter case is ignored
SameIgnoringCase(s, t) ==
    /\ Len(s) = Len(t)
    /\ \A i \in 1..Len(s) :
           \/ s[i] = t[i]
           \/ \E k \in 1..Len(Alphabet) : {s[i], t[i]} = {Alphabet[k], UpperCase[k]}

\* C22: after signup and profile-update requests run one at a time no two
\* users have usernames that are equal when letter case is ignored, nor
\* emails that are equal when letter case is ignored.
C22_UniqueIgnoringCase ==
    \A a \in DOMAIN users : \A b \in DOMAIN users \ {a} :
        /\ ~SameIgnoringCase(users[a].username, users[b].username)
        /\ ~SameIgnoringCase(users[a].email, users[b].email)

\* C30: a signup answered with an error status creates no user record, then
\* or later: every user row other than the initial ones bears an email that
\* some signup has answered 201.
C30_SignupErrorCreatesNothing ==
    \A id \in DOMAIN users \ Members : users[id].email \in signups.registered

\* C23: after the AuthProvider has mounted, initialized is true from the
\* moment the 10-second timer has fired or was cleared, loading is false when
\* that happens, and initialized does become true, also when GET /api/auth/me
\* never returns.
C23_InitializedByTimer ==
    /\ [][ (auth.timer = "armed" /\ auth'.timer # "armed")
              => (auth'.initialized /\ ~auth'.loading) ]_vars
    /\ [](auth.timer # "armed" => auth.initialized)
    /\ <>(auth.initialized /\ ~auth.loading)

\* the timer has fired while the auth check of the mount is still pending
C23_Witness ==
    /\ auth.timer = "fired"
    /\ auth.check = "pending"
    /\ auth.initialized
    /\ ~auth.loading

\* C29: once login() has resolved, user is not null until logout() is
\* called, whenever the answer to the auth check of the mount arrives.
C29_UserKeptAfterLogin == auth.session => auth.user # NoUser

\* C24: in every reachable state the user id of a completion row is the
\* owner of the habit the row belongs to.
C24_CompletionOwner ==
    \A c \in completions :
        c.habitId \in DOMAIN habits /\ habits[c.habitId].userId = c.userId

\* a second check-in of a habit by its owner was stored while another user
\* is registered
C24_Witness ==
    /\ last.op = "checkin"
    /\ last.status = 201
    /\ before # {}
    /\ \E c \in completions \ before : c.userId = last.user /\ c.habitId = last.habit
    /\ \E m \in DOMAIN users : m # last.user

\* C25: when a habit has more than one completion in one period, the streak
\* counts that period once and the extra completions do not stop the walk:
\* the streak is the number of consecutive periods, ending at the current
\* one, that hold a completion (here for runs of at most 30 periods).
C25_DuplicatesCountOnce ==
    [][ (Served("get") /\ last'.status = 200)
          => \A h \in DOMAIN last'.stats :
               (~OnePerPeriod(h) /\ RunLength(h, now) <= 30)
                   => last'.stats[h].streak = RunLength(h, now)
      ]_vars

\* the number of completions of habit h
Total(h) == Cardinality({c \in completions : c.habitId = h})

\* C26: the streak that GET /habits, GET /profile and the activity feed
\* report for a habit lies between 0 and 30 and is not greater than the
\* number of completions of the habit.
C26_StreakBounds ==
    [][ /\ (Served("get") \/ Served("profile")) =>
               \A h \in DOMAIN last'.stats :
                   /\ last'.stats[h].streak \in 0..30
                   /\ last'.stats[h].streak <= Total(h)
        /\ (Served("profile") /\ last'.status = 200) => last'.profile.currentStreak \in 0..30
        /\ Served("activity") =>
               \A i \in 1..Len(last'.activity) :
                   /\ last'.activity[i].streak \in 0..30
                   /\ last'.activity[i].streak <= Total(last'.activity[i].habitId)
      ]_vars

\* a feed entry with streak 30 of a habit with more than 30 completions
C26_Witness ==
    /\ last.op = "activity"
    /\ \E i \in 1..Len(last.activity) :
           last.activity[i].streak = 30 /\ Total(last.activity[i].habitId) > 30

\* C27: for one habit, one store and one instant the streak of GET /habits,
\* the streak of GET /profile and the streak of the entries of the habit in
\* the feed of a follower are the same number.
C27_StreakCopiesAgree ==
    [][ /\ (Served("get") /\ last'.status = 200) =>
               \A h \in DOMAIN last'.stats :
                   /\ last'.stats[h].streak = ProfileHabitStats(h, now).streak
                   /\ last'.stats[h].streak
                          = FeedStreak(h, habits[h].userId, StartOfDay(now))
        /\ (Served("profile") /\ last'.status = 200) =>
               \A h \in DOMAIN last'.stats :
                   last'.stats[h].streak = HabitStats(h, now).streak
        /\ Served("activity") =>
               \A h \in DOMAIN habits :
                   LET streak == HabitStats(h, now).streak
                   IN  \A i \in EntriesOf(last'.activity, h) :
                           last'.activity[i].streak = streak
      ]_vars

\* a profile with a weekly habit that holds two completions in one week and
\* a streak of 2 or more
C27_Witness ==
    /\ last.op = "profile"
    /\ last.status = 200
    /\ \E h \in DOMAIN last.stats :
           /\ habits[h].frequency = "weekly"
           /\ ~OnePerPeriod(h)
           /\ last.stats[h].streak >= 2

\* C28: in every state reached by follow, unfollow and check-in requests the
\* activity feed of a viewer holds no completion of the viewer.
C28_NoOwnActivity ==
    [][ Served("activity") =>
          \A i \in 1..Len(last'.activity) : last'.activity[i].userId # last'.user
      ]_vars

\* a feed with an entry, read by a viewer who has checked in too
C28_Witness ==
    /\ last.op = "activity"
    /\ Len(last.activity) >= 1
    /\ \E c \in completions : c.userId = last.user

====
